---- MODULE Spec2Model ----
(***************************************************************************)
(* Model of chromium/scripts/generate_gyp.py: the SourceSet algebra, the   *)
(* refinement loop of CreatePairwiseDisjointSets and the flow of main().   *)
(***************************************************************************)
EXTENDS Integers, Sequences, FiniteSets, TLC

VARIABLES
    sets,           \* the list handed to CreatePairwiseDisjointSets
    disjoint_sets,  \* the working list of CreatePairwiseDisjointSets
    new_sets,       \* the loop flag of CreatePairwiseDisjointSets
    pc,             \* position of the run
    fs,             \* the source tree: files present and their include lines
    loop_index,     \* position of main()'s loops over the configurations
    skipped_dirs,   \* main(): build directories that were not found
    walked_files,   \* history: the names os.walk found in the build directory read last
    sources_to_check,   \* CheckLicensesForStaticLinking: the include closure
    checked,        \* sources the license loop has already visited
    failed,         \* history: sources whose license check returned False
    all_checks_passed,  \* CheckLicensesForStaticLinking: the result flag
    output,         \* the generated file, NoOutput until it is written
    pending,        \* include walk: sources not yet handed to GetIncludedSources
    stack,          \* include walk: the active calls of GetIncludedSources
    opened          \* history: the paths opened by the walk, in order

mainvars == <<fs, loop_index, skipped_dirs, walked_files, sources_to_check, checked, failed,
              all_checks_passed, output>>

walkvars == <<pending, stack, opened>>

vars == <<sets, disjoint_sets, new_sets, pc, mainvars, walkvars>>

(* ---------------------------- bounds ----------------------------------- *)

\* Largest number of Labeled File-Sets in an input list.
MaxSets == 3

\* Source files that a configuration can build.
Files == {"a.c", "b.c", "c.c"}

\* Configurations (architecture, target, platform) whose build directory
\* can be present; a subset of the 50 combinations main() iterates over.
ObservedConfigs ==
    { <<"ia32", "Chromium", "linux">>,
      <<"arm",  "Chrome",   "linux">>,
      <<"ia32", "Chrome",   "linux">>,
      <<"ia32", "Chromium", "win">> }

(* ------------------------ program constants ---------------------------- *)

SUPPORTED_ARCHITECTURES == <<"ia32", "arm", "arm-neon", "x64", "mipsel">>
SUPPORTED_TARGETS == <<"Chromium", "Chrome", "ChromiumOS", "ChromeOS", "Ensemble">>
SUPPORTED_PLATFORMS == <<"linux", "win">>

(* --------------------------- SourceSet --------------------------------- *)

SourceSet(srcs, archs, tgts, plats) ==
    [sources |-> srcs, architectures |-> archs, targets |-> tgts, platforms |-> plats]

\* Intersect with the axis sets intersected instead of united.
IntersectCapAxes(self, other) ==
    SourceSet(self.sources \cap other.sources,
              self.architectures \cap other.architectures,
              self.targets \cap other.targets,
              self.platforms \cap other.platforms)

\* Intersect that keeps only this set's architectures.
IntersectSelfAxes(self, other) ==
    SourceSet(self.sources \cap other.sources,
              self.architectures,
              self.targets \cup other.targets,
              self.platforms \cup other.platforms)

Intersect(self, other) ==
    SourceSet(self.sources \cap other.sources,
              self.architectures \cup other.architectures,
              self.targets \cup other.targets,
              self.platforms \cup other.platforms)

Difference(self, other) ==
    SourceSet(self.sources \ other.sources,
              self.architectures \cap other.architectures,
              self.targets \cap other.targets,
              self.platforms \cap other.platforms)

IsEmpty(self) ==
    \/ Cardinality(self.sources) = 0
    \/ Cardinality(self.architectures) = 0
    \/ Cardinality(self.targets) = 0
    \/ Cardinality(self.platforms) = 0

(* ------------------------- names and paths ----------------------------- *)

\* Configurations whose build directory can be present in a run of main().
MainConfigs ==
    { <<"x64", "Chrome", "linux">>,
      <<"mipsel", "Ensemble", "linux">>,
      <<"mipsel", "Ensemble", "win">> }

\* File names that os.walk can find in a build directory.
BuildDirEntries == {"a.o", "libavutil/m.o", "libavutil/aes.o", "x.o", "a.d"}

\* GetSourceFiles(source_dir): the source files of the tree.
SourceFiles == {"a.c", "libavutil/m.c", "libavutil/aes.c"}

\* os.path.splitext(name)[1] for the names of the model.
Ext(name) ==
    CASE name \in {"a.o", "libavutil/m.o", "libavutil/aes.o", "x.o"} -> ".o"
      [] name \in {"a.c", "libavutil/m.c", "libavutil/aes.c"} -> ".c"
      [] name \in {"arm/g.S"} -> ".S"
      [] name \in {"x86\\f.asm", "x86/f.asm"} -> ".asm"
      [] OTHER -> ".d"

\* os.path.splitext(name)[0] + '.o' for the source files of the model.
ObjectKey(name) ==
    CASE name = "a.c" -> "a.o"
      [] name = "libavutil/m.c" -> "libavutil/m.o"
      [] name = "libavutil/aes.c" -> "libavutil/aes.o"

\* A path as the list of its components.
Parts(name) ==
    CASE name = "a.c" -> <<"a.c">>
      [] name = "libavutil/m.c" -> <<"libavutil", "m.c">>
      [] name = "libavutil/aes.c" -> <<"libavutil", "aes.c">>
      [] name = "arm/g.S" -> <<"arm", "g.S">>
      [] name = "x86\\f.asm" -> <<"x86", "f.asm">>

\* os.path.normpath on components: "." dropped, ".." removes its parent.
RECURSIVE Normalize(_)
Normalize(parts) ==
    IF parts = << >> THEN << >>
    ELSE LET init == Normalize(SubSeq(parts, 1, Len(parts) - 1))
             last == parts[Len(parts)]
         IN  IF last = "." THEN init
             ELSE IF last = ".." /\ init # << >> THEN SubSeq(init, 1, Len(init) - 1)
             ELSE Append(init, last)

(* ------------------------ object file extraction ----------------------- *)

blacklist ==
    { "libavcodec/inverse.o", "libavcodec/file_open.o", "libavcodec/log2_tab.o",
      "libavformat/golomb_tab.o", "libavformat/log2_tab.o", "libavformat/file_open.o",
      "libavcodec/audioconvert.o", "libavcodec/resample.o", "libavcodec/resample2.o",
      "libavcodec/x86/dnxhd_mmx.o", "libavformat/sdp.o", "libavutil/adler32.o",
      "libavutil/audio_fifo.o", "libavutil/aes.o", "libavutil/blowfish.o",
      "libavutil/cast5.o", "libavutil/des.o", "libavutil/file.o", "libavutil/hash.o",
      "libavutil/hmac.o", "libavutil/lls.o", "libavutil/murmur3.o", "libavutil/rc4.o",
      "libavutil/ripemd.o", "libavutil/sha512.o", "libavutil/tree.o", "libavutil/xtea.o",
      "libavutil/xga_font_data.o" }

\* No name is removed.
CleanNothing(object_files) == object_files

\* The walk lists every path once, so the list is modelled as a set.
CleanObjectFiles(object_files) == { name \in object_files : name \notin blacklist }

GetObjectFiles(entries) == CleanObjectFiles({ name \in entries : Ext(name) = ".o" })

\* The dictionary as the set of its keys and a lookup.
ObjectKeys(source_files) == { ObjectKey(name) : name \in source_files }

ObjectToSource(source_files, key) == CHOOSE name \in source_files : ObjectKey(name) = key

\* The lookup raised KeyError (no file has this name).
KeyError == { "KeyError" }

\* A name without an entry in the dictionary is passed over.
GetSourceFileSetOfKnown(source_files, object_files) ==
    { ObjectToSource(source_files, name) : name \in object_files \cap ObjectKeys(source_files) }

GetSourceFileSet(source_files, object_files) ==
    IF \E name \in object_files : name \notin ObjectKeys(source_files)
    THEN KeyError
    ELSE { ObjectToSource(source_files, name) : name \in object_files }

\* The configuration of the n-th iteration of main()'s nested loops.
ConfigAt(n) ==
    LET np == Len(SUPPORTED_PLATFORMS)
        nt == Len(SUPPORTED_TARGETS)
    IN  << SUPPORTED_ARCHITECTURES[((n - 1) \div (nt * np)) + 1],
           SUPPORTED_TARGETS[(((n - 1) \div np) % nt) + 1],
           SUPPORTED_PLATFORMS[((n - 1) % np) + 1] >>

NumConfigs == Len(SUPPORTED_ARCHITECTURES) * Len(SUPPORTED_TARGETS) * Len(SUPPORTED_PLATFORMS)

(* --------------------------- include closure --------------------------- *)

\* The source trees of the model: the files present (normalized, relative
\* to the source root) and the quoted includes of each, in line order.
NoIncludes(files) == [f \in files |-> << >>]

Layouts ==
    { [files |-> { <<"a.c">>, <<"libavutil", "m.c">>, <<"libavutil", "aes.c">>,
                   <<"h.h">>, <<"libavutil", "h.h">> },
       includes |-> ( <<"a.c">> :> << <<"h.h">> >> ) @@
                    ( <<"libavutil", "m.c">> :> << <<"h.h">> >> ) @@
                    ( <<"h.h">> :> << <<"h.h">> >> ) @@
                    NoIncludes({ <<"libavutil", "aes.c">>, <<"libavutil", "h.h">> })],
      [files |-> { <<"a.c">>, <<"libavutil", "m.c">>, <<"libavutil", "aes.c">> },
       includes |-> ( <<"a.c">> :> << <<"config.h">> >> ) @@
                    NoIncludes({ <<"libavutil", "m.c">>, <<"libavutil", "aes.c">> })],
      [files |-> { <<"a.c">>, <<"libavutil", "m.c">>, <<"libavutil", "aes.c">> },
       includes |-> ( <<"libavutil", "m.c">> :> << <<"missing.h">> >> ) @@
                    NoIncludes({ <<"a.c">>, <<"libavutil", "aes.c">> })] }

IGNORED_INCLUDE_FILES ==
    { <<"config.h">>, <<"libavutil", "avconfig.h">>, <<"libavutil", "ffversion.h">>,
      <<"libavcodec", "aacps_tables.h">>, <<"libavcodec", "aacsbr_tables.h">>,
      <<"libavcodec", "aac_tables.h">>, <<"libavcodec", "cabac_tables.h">>,
      <<"libavcodec", "cbrt_tables.h">>, <<"libavcodec", "mpegaudio_tables.h">>,
      <<"libavcodec", "pcm_tables.h">>, <<"libavcodec", "sinewin_tables.h">> }

\* options.source_dir at its default '.'; the run starts in the source root.
source_dir == << "." >>

\* An absolute path starts with the component "/", which stands for the
\* absolute path of the source root.
IsAbs(path) == path # << >> /\ path[1] = "/"

Join(a, b) == a \o b

AbsPath(path) == << "/" >> \o Normalize(IF IsAbs(path) THEN Tail(path) ELSE path)

DirName(path) == SubSeq(path, 1, Len(path) - 1)

BaseName(path) == path[Len(path)]

\* The directories of a tree: the source root << >> and every directory
\* that holds a file.
Dirs(tree) == UNION { { SubSeq(f, 1, k) : k \in 0..(Len(f) - 1) } : f \in tree.files }

\* The operating system found no such file or directory.
NoEntry == << "ENOENT" >>

\* The entry the operating system reaches from directory `at` along the
\* components `parts`: every component but the last must be a directory.
RECURSIVE Lookup(_, _, _)
Lookup(tree, at, parts) ==
    IF parts = << >> THEN at
    ELSE IF at \notin Dirs(tree) THEN NoEntry
    ELSE IF Head(parts) = "." THEN Lookup(tree, at, Tail(parts))
    ELSE IF Head(parts) = ".." THEN Lookup(tree, DirName(at), Tail(parts))
    ELSE Lookup(tree, Append(at, Head(parts)), Tail(parts))

\* The file a path names; relative paths start at the source root, the
\* working directory of the run.
FileOf(tree, path) == Lookup(tree, << >>, IF IsAbs(path) THEN Tail(path) ELSE path)

IsFile(tree, path) == FileOf(tree, path) \in tree.files

\* Only the first include line of a file is seen.
ReadFirstInclude(tree, path) ==
    LET lines == tree.includes[FileOf(tree, path)]
    IN  IF lines = << >> THEN lines ELSE << Head(lines) >>

\* open(file_path), reduced to the paths of its quoted include lines.
ReadIncludes(tree, path) == tree.includes[FileOf(tree, path)]

\* Ways an include line ends without a resolved path: `continue` and
\* exit(). Neither is the path of a file.
Skipped == << "continue" >>

NotFound == << "exit" >>

\* exit(): the walk ended the run.
Exited == { << "exit" >> }

\* The source root is tried before the directory of the including file.
ResolveRootFirst(tree, current_dir, include_file_path) ==
    IF IsFile(tree, Join(source_dir, include_file_path))
    THEN Join(source_dir, include_file_path)
    ELSE IF IsFile(tree, Join(current_dir, include_file_path))
    THEN Join(current_dir, include_file_path)
    ELSE IF include_file_path \in IGNORED_INCLUDE_FILES
    THEN Skipped
    ELSE NotFound

\* Lines 714-725: resolved_include_path, or the way the line ends.
ResolveInclude(tree, current_dir, include_file_path) ==
    IF IsFile(tree, Join(current_dir, include_file_path))
    THEN Join(current_dir, include_file_path)
    ELSE IF IsFile(tree, Join(source_dir, include_file_path))
    THEN Join(source_dir, include_file_path)
    ELSE IF include_file_path \in IGNORED_INCLUDE_FILES
    THEN Skipped
    ELSE NotFound

\* Lines 699-700: the path under which a file is recorded and opened.
FilePath(path) == IF ~IsAbs(path) THEN AbsPath(Join(source_dir, path)) ELSE path

RECURSIVE GetIncludedSources(_, _, _)
RECURSIVE ScanLines(_, _, _, _)

GetIncludedSources(tree, path, include_set) ==
    LET file_path == FilePath(path)
        current_dir == DirName(file_path)
    IN  IF file_path \in include_set
        THEN include_set
        ELSE ScanLines(tree, ReadIncludes(tree, file_path), current_dir,
                       include_set \cup {file_path})

\* The for loop over the lines of a file, from the given line on.
ScanLines(tree, lines, current_dir, include_set) ==
    IF lines = << >> THEN include_set
    ELSE LET resolved_include_path == ResolveInclude(tree, current_dir, Head(lines))
             after ==
                 IF resolved_include_path = NotFound THEN Exited
                 ELSE IF resolved_include_path = Skipped THEN include_set
                 ELSE GetIncludedSources(tree, resolved_include_path, include_set)
         IN  IF after = Exited THEN Exited
             ELSE ScanLines(tree, Tail(lines), current_dir, after)

\* Lines 764-767 for the sources in the given order.
RECURSIVE CollectSources(_, _, _)
CollectSources(tree, sources, include_set) ==
    IF sources = << >> \/ include_set = Exited THEN include_set
    ELSE CollectSources(tree, Tail(sources),
                        GetIncludedSources(tree, Parts(Head(sources)), include_set))

\* Every order in which the sources of the groups can be visited.
Orders(S) == { o \in [1..Cardinality(S) -> S] : \A i, j \in 1..Cardinality(S) : i # j => o[i] # o[j] }

(* ------------------------------ licenses ------------------------------- *)

LICENSE_WHITELIST ==
    { "BSD (3 clause) LGPL (v2.1 or later)", "ISC GENERATED FILE", "LGPL (v2.1 or later)",
      "LGPL (v2.1 or later) GENERATED FILE", "MIT/X11 (BSD like)",
      "Public domain LGPL (v2.1 or later)" }

UNKNOWN_WHITELIST == { "jrevdct.c", "jfdctfst.c", "jfdctint_template.c" }

\* What licensecheck.pl can print after the colon: the license, with or
\* without the '*No copyright*' marker that the code strips.
ClassifierOutputs ==
    [ license : { "LGPL (v2.1 or later)", "GPL (v2 or later)", "UNKNOWN" },
      no_copyright : BOOLEAN ]

CheckLicenseForSource(source, out) ==
    \/ out.license \in LICENSE_WHITELIST
    \/ (out.license = "UNKNOWN" /\ BaseName(source) \in UNKNOWN_WHITELIST)

\* The flag is overwritten by the result of the file checked last.
LastCheckWins(passed, ok) == ok

\* Lines 772-773: the flag after one more file.
UpdateAllChecksPassed(passed, ok) == IF ~ok THEN FALSE ELSE passed

\* The test is never true.
NoSourceSetsNever(l) == FALSE

\* Line 812: len(sets) is 0.
NoSourceSets(l) == Len(l) = 0

NoOutput == << >>

Reverse(l) == [k \in 1..Len(l) |-> l[Len(l) + 1 - k]]

(* ------------------------------ stanzas -------------------------------- *)

\* set(l) for a list l.
SetOf(l) == { l[k] : k \in 1..Len(l) }

\* A condition is a list of clauses, joined by `and` / `&&`; a clause is
\* the set of the checks that `or` / `||` joins. A check is the literal
\* <<"1">>, a comparison <<variable, value>>, a flag <<variable>>, or a
\* comparison with a second conjunct.
GypArchConditions(self) ==
    IF self.architectures = SetOf(SUPPORTED_ARCHITECTURES)
    THEN { << "1" >> }
    ELSE { IF arch = "arm-neon"
           THEN << "target_arch", "arm", "arm_neon", "1" >>
           ELSE << "target_arch", arch >> : arch \in self.architectures }

GypBrandingConditions(self) ==
    IF self.targets = SetOf(SUPPORTED_TARGETS)
    THEN { << "1" >> }
    ELSE { << "ffmpeg_branding", branding >> : branding \in self.targets }

\* Only the full platform set is rendered as '1'.
GypPlatformConditionsFullOnly(self) ==
    IF self.platforms = SetOf(SUPPORTED_PLATFORMS)
    THEN { << "1" >> }
    ELSE { << "OS", platform >> : platform \in self.platforms }

GypPlatformConditions(self) ==
    IF self.platforms = SetOf(SUPPORTED_PLATFORMS) \/ self.platforms = {"linux"}
    THEN { << "1" >> }
    ELSE { << "OS", platform >> : platform \in self.platforms }

\* n.replace('\\', '/') for the names of the model.
ToSlashes(name) == IF name = "x86\\f.asm" THEN "x86/f.asm" ELSE name

\* The names of the model, with slashes, in the order of sorted().
NameOrder == << "a.c", "arm/g.S", "libavutil/aes.c", "libavutil/m.c", "x86/f.asm" >>

\* sorted(n.replace('\\', '/') for n in sources)
SortedSources(sources) ==
    SelectSeq(NameOrder, LAMBDA n : \E name \in sources : ToSlashes(name) = n)

IsAssemblyFile(f) == Ext(f) \in {".S", ".asm"}

IsGasFile(f) == Ext(f) \in {".S"}

IsYasmFile(f) == Ext(f) \in {".asm"}

IsCFile(f) == Ext(f) \in {".c"}

GenerateGypStanza(self) ==
    LET sources == SortedSources(self.sources)
    IN  [conditions |-> << GypArchConditions(self), GypBrandingConditions(self),
                           GypPlatformConditions(self) >>,
         c_sources |-> SelectSeq(sources, IsCFile),
         asm_sources |-> SelectSeq(sources, IsAssemblyFile)]

\* Line 412: the set object after GenerateGypStanza has run on it. Its
\* sources attribute is now a list: `sources` keeps the elements and
\* `sources_list` is their order in the list.
AfterGypStanza(self) ==
    [sources |-> { ToSlashes(name) : name \in self.sources },
     sources_list |-> SortedSources(self.sources),
     architectures |-> self.architectures,
     targets |-> self.targets,
     platforms |-> self.platforms]

\* ia32 keeps its name.
GnArchConditionsSameNames(self) ==
    IF self.architectures # SetOf(SUPPORTED_ARCHITECTURES)
    THEN { IF arch = "arm-neon" THEN << "current_cpu", "arm", "arm_use_neon" >>
           ELSE << "current_cpu", arch >> : arch \in self.architectures }
    ELSE {}

GnArchConditions(self) ==
    IF self.architectures # SetOf(SUPPORTED_ARCHITECTURES)
    THEN { IF arch = "arm-neon" THEN << "current_cpu", "arm", "arm_use_neon" >>
           ELSE IF arch = "ia32" THEN << "current_cpu", "x86" >>
           ELSE << "current_cpu", arch >> : arch \in self.architectures }
    ELSE {}

GnBrandingConditions(self) ==
    IF self.targets # SetOf(SUPPORTED_TARGETS)
    THEN { << "ffmpeg_branding", branding >> : branding \in self.targets }
    ELSE {}

\* 'is_%s' % platform
GnPlatformFlag(platform) == IF platform = "linux" THEN "is_linux" ELSE "is_win"

GnPlatformConditions(self) ==
    IF self.platforms # SetOf(SUPPORTED_PLATFORMS) /\ self.platforms # {"linux"}
    THEN { << GnPlatformFlag(platform) >> : platform \in self.platforms }
    ELSE {}

GenerateGnStanza(self) ==
    LET sources == SortedSources(self.sources)
    IN  [conditions |-> SelectSeq(<< GnArchConditions(self), GnBrandingConditions(self),
                                     GnPlatformConditions(self) >>,
                                  LAMBDA clause : clause # {}),
         c_sources |-> SelectSeq(sources, IsCFile),
         gas_sources |-> SelectSeq(sources, IsGasFile),
         yasm_sources |-> SelectSeq(sources, IsYasmFile)]

\* Lines 618-637: the file that is written, the groups in the order of
\* their stanzas, and the stanzas.
WriteOutput(output_gn, l) ==
    IF output_gn
    THEN [name |-> "ffmpeg_generated.gni", sets |-> Reverse(l),
          stanzas |-> [k \in 1..Len(l) |-> GenerateGnStanza(Reverse(l)[k])]]
    ELSE [name |-> "ffmpeg_generated.gypi", sets |-> l,
          stanzas |-> [k \in 1..Len(l) |-> GenerateGypStanza(l[k])]]

\* The list of set objects after the file has been written.
AfterWrite(output_gn, l) ==
    IF output_gn THEN l ELSE [k \in 1..Len(l) |-> AfterGypStanza(l[k])]

(* ------------------- CreatePairwiseDisjointSets ------------------------ *)

\* Only neighbouring entries are compared.
CombinationsAdjacent(l) == { p \in (1..Len(l)) \X (1..Len(l)) : p[2] = p[1] + 1 }

\* itertools.combinations(l, 2): index pairs in lexicographic order.
Combinations(l) == { p \in (1..Len(l)) \X (1..Len(l)) : p[1] < p[2] }

PairBefore(p, q) == p[1] < q[1] \/ (p[1] = q[1] /\ p[2] <= q[2])

\* No pair is found to intersect.
NeverIntersecting(l, p) == FALSE

Intersecting(l, p) == ~IsEmpty(Intersect(l[p[1]], l[p[2]]))

HasIntersectingPair(l) == \E p \in Combinations(l) : Intersecting(l, p)

\* The pair at which the for loop reaches the statements after `continue`.
FirstPair(l) ==
    CHOOSE p \in Combinations(l) :
        /\ Intersecting(l, p)
        /\ \A q \in Combinations(l) : Intersecting(l, q) => PairBefore(p, q)

\* Equality by the files alone, and the last such position.
IndexLastSameFiles(l, p) ==
    CHOOSE k \in 1..Len(l) :
        l[k].sources = p.sources /\ \A m \in (k + 1)..Len(l) : l[m].sources # p.sources

\* list.index(p): first position holding an element equal (__eq__) to p.
Index(l, p) ==
    CHOOSE k \in 1..Len(l) : l[k] = p /\ \A m \in 1..(k - 1) : l[m] # p

DelAt(l, k) == SubSeq(l, 1, k - 1) \o SubSeq(l, k + 1, Len(l))

\* The member is deleted whether or not its difference is empty.
UpdateMemberAlwaysDelete(l, p, intersection) == DelAt(l, Index(l, p))

\* The member stays as it is.
UpdateMemberUnchanged(l, p, intersection) == l

\* The member is replaced by its difference even when that is empty.
UpdateMemberNeverDelete(l, p, intersection) ==
    [l EXCEPT ![Index(l, p)] = Difference(p, intersection)]

\* Body of `for p in pair` for one member p of the pair.
UpdateMember(l, p, intersection) ==
    LET i == Index(l, p)
        difference == Difference(p, intersection)
    IN  IF IsEmpty(difference) THEN DelAt(l, i) ELSE [l EXCEPT ![i] = difference]

\* The intersection is not added to the list.
SplitPairNoAppend(l, pair) ==
    LET intersection == Intersect(l[pair[1]], l[pair[2]])
        l2 == UpdateMember(l, l[pair[1]], intersection)
    IN  UpdateMember(l2, l[pair[2]], intersection)

\* The split is made on a copy and its result is dropped.
SplitPairOnCopy(l, pair) == l

\* Body of the for loop for an intersecting pair.
SplitPair(l, pair) ==
    LET intersection == Intersect(l[pair[1]], l[pair[2]])
        l1 == Append(l, intersection)
        l2 == UpdateMember(l1, l[pair[1]], intersection)
    IN  UpdateMember(l2, l[pair[2]], intersection)

RECURSIVE CreatePairwiseDisjointSets(_)
CreatePairwiseDisjointSets(l) ==
    IF HasIntersectingPair(l)
    THEN CreatePairwiseDisjointSets(SplitPair(l, FirstPair(l)))
    ELSE l

(* ------------------------------ inputs --------------------------------- *)

LabeledFileSet(cfg, srcs) == SourceSet(srcs, {cfg[1]}, {cfg[2]}, {cfg[3]})

\* Lists of Labeled File-Sets, at most one per configuration, in any order.
InputLists ==
    UNION { { l \in [1..n -> { LabeledFileSet(c, s) : c \in ObservedConfigs, s \in SUBSET Files }] :
                \A i, j \in 1..n : i # j =>
                    <<l[i].architectures, l[i].targets, l[i].platforms>> #
                    <<l[j].architectures, l[j].targets, l[j].platforms>> }
            : n \in 0..MaxSets }

\* Position of x in the list s.
IndexIn(s, x) == CHOOSE k \in 1..Len(s) : s[k] = x

\* Position of a configuration in the nested loops of main().
ConfigIndex(cfg) ==
    (IndexIn(SUPPORTED_ARCHITECTURES, cfg[1]) - 1) * Len(SUPPORTED_TARGETS) * Len(SUPPORTED_PLATFORMS)
    + (IndexIn(SUPPORTED_TARGETS, cfg[2]) - 1) * Len(SUPPORTED_PLATFORMS)
    + IndexIn(SUPPORTED_PLATFORMS, cfg[3])

ConfigOf(s) ==
    CHOOSE cfg \in ObservedConfigs : s.architectures = {cfg[1]} /\ s.targets = {cfg[2]} /\ s.platforms = {cfg[3]}

\* The lists main() builds: one entry per present build directory, in
\* the order of its loops.
MainInputLists ==
    { l \in InputLists :
        \A i, j \in 1..Len(l) : i < j => ConfigIndex(ConfigOf(l[i])) < ConfigIndex(ConfigOf(l[j])) }

(* --------------------------- the partition run ------------------------- *)

\* The variables of main() while it has not run.
MainIdle ==
    /\ fs = [files |-> {}, includes |-> << >>]
    /\ loop_index = 1
    /\ skipped_dirs = << >>
    /\ walked_files = {}
    /\ sources_to_check = {}
    /\ checked = {}
    /\ failed = {}
    /\ all_checks_passed = TRUE
    /\ output = NoOutput

\* The variables of the include walk while it has not run.
WalkIdle ==
    /\ pending = << >>
    /\ stack = << >>
    /\ opened = << >>

Init ==
    /\ sets = << >>
    /\ disjoint_sets = << >>
    /\ new_sets = FALSE
    /\ pc = "start"
    /\ MainIdle
    /\ WalkIdle

\* The call: disjoint_sets = list(sets); new_sets = True.
Call ==
    /\ pc = "start"
    /\ sets' \in InputLists
    /\ disjoint_sets' = sets'
    /\ new_sets' = TRUE
    /\ pc' = "loop"
    /\ UNCHANGED <<mainvars, walkvars>>

\* The call as main() makes it (line 810).
MainCall ==
    /\ pc = "start"
    /\ sets' \in MainInputLists
    /\ disjoint_sets' = sets'
    /\ new_sets' = TRUE
    /\ pc' = "loop"
    /\ UNCHANGED <<mainvars, walkvars>>

\* One iteration of `while new_sets` that finds an intersecting pair.
Refine ==
    /\ pc = "loop"
    /\ new_sets
    /\ HasIntersectingPair(disjoint_sets)
    /\ \E pair \in {FirstPair(disjoint_sets)} :
          disjoint_sets' = SplitPair(disjoint_sets, pair)
    /\ new_sets' = TRUE
    /\ UNCHANGED <<sets, pc, mainvars, walkvars>>

\* The iteration whose for loop ends without a split, then the return.
Return ==
    /\ pc = "loop"
    /\ new_sets
    /\ ~HasIntersectingPair(disjoint_sets)
    /\ new_sets' = FALSE
    /\ pc' = "returned"
    /\ UNCHANGED <<sets, disjoint_sets, mainvars, walkvars>>

Next == Call \/ Refine \/ Return

Spec == Init /\ [][Next]_vars

MainNext == MainCall \/ Refine \/ Return

\* The loop is sequential code: once called it keeps running.
FairSpec == Init /\ [][MainNext]_vars /\ WF_vars(Refine \/ Return)

AllSources(l) == UNION { l[k].sources : k \in 1..Len(l) }

(* ------------------------------- main() -------------------------------- *)

MainInit ==
    /\ sets = << >>
    /\ disjoint_sets = << >>
    /\ new_sets = FALSE
    /\ pc = "scan"
    /\ fs \in Layouts
    /\ loop_index = 1
    /\ skipped_dirs = << >>
    /\ walked_files = {}
    /\ sources_to_check = {}
    /\ checked = {}
    /\ failed = {}
    /\ all_checks_passed = TRUE
    /\ output = NoOutput
    /\ WalkIdle

\* Lines 790-795: the build directory of this iteration does not exist.
SkipDir ==
    /\ pc = "scan"
    /\ loop_index <= NumConfigs
    /\ skipped_dirs' = Append(skipped_dirs, ConfigAt(loop_index))
    /\ loop_index' = loop_index + 1
    /\ UNCHANGED <<sets, disjoint_sets, new_sets, pc, fs, walked_files, sources_to_check, checked,
                   failed, all_checks_passed, output, walkvars>>

\* Lines 796-802: the build directory exists and holds the given files.
ProcessDir ==
    /\ pc = "scan"
    /\ loop_index <= NumConfigs
    /\ ConfigAt(loop_index) \in MainConfigs
    /\ \E entries \in SUBSET BuildDirEntries :
          LET object_files == GetObjectFiles(entries)
              s == GetSourceFileSet(SourceFiles, object_files)
          IN  /\ walked_files' = entries
              /\ IF s = KeyError
                 THEN /\ pc' = "fatal"
                      /\ UNCHANGED <<sets, loop_index>>
                 ELSE /\ sets' = Append(sets, LabeledFileSet(ConfigAt(loop_index), s))
                      /\ loop_index' = loop_index + 1
                      /\ pc' = pc
    /\ UNCHANGED <<disjoint_sets, new_sets, fs, skipped_dirs, sources_to_check, checked,
                   failed, all_checks_passed, output, walkvars>>

\* Line 810: the call, up to the first test of the while loop.
Partition ==
    /\ pc = "scan"
    /\ loop_index > NumConfigs
    /\ disjoint_sets' = sets
    /\ new_sets' = TRUE
    /\ pc' = "loop"
    /\ UNCHANGED <<sets, mainvars, walkvars>>

\* Lines 812-815.
CheckSourceSets ==
    /\ pc = "returned"
    /\ pc' = IF NoSourceSets(disjoint_sets) THEN "fatal" ELSE "closure"
    /\ UNCHANGED <<sets, disjoint_sets, new_sets, mainvars, walkvars>>

\* Lines 764-767: the include closure of the sources of all groups.
CollectIncludes ==
    /\ pc = "closure"
    /\ \E order \in Orders(AllSources(disjoint_sets)) :
          LET include_set == CollectSources(fs, order, {})
          IN  IF include_set = Exited
              THEN /\ pc' = "fatal"
                   /\ UNCHANGED sources_to_check
              ELSE /\ pc' = "license"
                   /\ sources_to_check' = include_set
    /\ all_checks_passed' = TRUE
    /\ UNCHANGED <<sets, disjoint_sets, new_sets, fs, loop_index, skipped_dirs, walked_files, checked,
                   failed, output, walkvars>>

\* Lines 771-773: one iteration of the license loop. The tool can be
\* missing (exit at line 738) or print a line without a colon (ValueError
\* at line 748); both end the run.
CheckLicense ==
    /\ pc = "license"
    /\ \E source \in sources_to_check \ checked :
       \E tool \in {"missing", "no colon", "ok"} :
       \E out \in ClassifierOutputs :
          IF tool # "ok"
          THEN /\ pc' = "fatal"
               /\ UNCHANGED <<checked, failed, all_checks_passed>>
          ELSE LET ok == CheckLicenseForSource(source, out)
               IN  /\ checked' = checked \cup {source}
                   /\ failed' = IF ok THEN failed ELSE failed \cup {source}
                   /\ all_checks_passed' = UpdateAllChecksPassed(all_checks_passed, ok)
                   /\ pc' = pc
    /\ UNCHANGED <<sets, disjoint_sets, new_sets, fs, loop_index, skipped_dirs, walked_files,
                   sources_to_check, output, walkvars>>

\* The loop also ends at the first source that fails.
LoopEndsAtFailure == checked = sources_to_check \/ failed # {}

\* Line 771: the for loop has visited every element of sources_to_check.
LicenseLoopOver == checked = sources_to_check

\* Lines 818-833: the checks passed and the file is written.
WriteFile ==
    /\ pc = "license"
    /\ LicenseLoopOver
    /\ all_checks_passed
    /\ \E output_gn \in BOOLEAN :
          /\ output' = WriteOutput(output_gn, disjoint_sets)
          /\ disjoint_sets' = AfterWrite(output_gn, disjoint_sets)
    /\ pc' = "done"
    /\ UNCHANGED <<sets, new_sets, fs, loop_index, skipped_dirs, walked_files,
                   sources_to_check, checked, failed, all_checks_passed, walkvars>>

\* Lines 834-835: 'Generate failed, invalid licenses detected.'
RejectLicenses ==
    /\ pc = "license"
    /\ LicenseLoopOver
    /\ ~all_checks_passed
    /\ pc' = "rejected"
    /\ UNCHANGED <<sets, disjoint_sets, new_sets, mainvars, walkvars>>

NextMain ==
    \/ SkipDir \/ ProcessDir \/ Partition \/ Refine \/ Return \/ CheckSourceSets
    \/ CollectIncludes \/ CheckLicense \/ WriteFile \/ RejectLicenses

SpecMain == MainInit /\ [][NextMain]_vars

(* ------------ the license gate with the walk step by step -------------- *)

\* Deepest nesting of GetIncludedSources calls the interpreter allows
\* (its recursion limit); a deeper call raises RuntimeError.
MaxDepth == 4

\* Source trees for the walk. Include paths are lists of components.
WalkLayouts ==
    { \* an include found next to the including file and under the root; a
      \* file that includes itself
      [files |-> { <<"a.c">>, <<"libavutil", "m.c">>, <<"libavutil", "aes.c">>,
                   <<"h.h">>, <<"libavutil", "h.h">>, <<"x.h">> },
       includes |-> ( <<"a.c">> :> << <<"h.h">>, <<"x.h">> >> ) @@
                    ( <<"libavutil", "m.c">> :> << <<"h.h">>, <<"libavutil", "h.h">> >> ) @@
                    ( <<"h.h">> :> << <<"h.h">> >> ) @@
                    ( <<"libavutil", "h.h">> :> << <<"x.h">> >> ) @@
                    NoIncludes({ <<"libavutil", "aes.c">>, <<"x.h">> })],
      \* ignore-listed includes, one absent and one present
      [files |-> { <<"a.c">>, <<"libavutil", "m.c">>, <<"libavutil", "aes.c">>,
                   <<"libavutil", "avconfig.h">>, <<"h.h">>, <<"libavutil", "h.h">> },
       includes |-> ( <<"a.c">> :> << <<"config.h">>, <<"libavutil", "avconfig.h">> >> ) @@
                    ( <<"libavutil", "m.c">> :> << <<"libavutil", "ffversion.h">>, <<"h.h">> >> ) @@
                    NoIncludes({ <<"libavutil", "aes.c">>, <<"libavutil", "avconfig.h">>,
                                 <<"h.h">>, <<"libavutil", "h.h">> })],
      \* an include that is nowhere and not on the ignore list
      [files |-> { <<"a.c">>, <<"libavutil", "m.c">>, <<"libavutil", "aes.c">>, <<"h.h">> },
       includes |-> ( <<"a.c">> :> << <<"h.h">> >> ) @@
                    ( <<"libavutil", "m.c">> :> << <<"missing.h">>, <<"h.h">> >> ) @@
                    NoIncludes({ <<"libavutil", "aes.c">>, <<"h.h">> })],
      \* one header reached under two paths
      [files |-> { <<"a.c">>, <<"libavutil", "m.c">>, <<"libavutil", "aes.c">>, <<"h.h">> },
       includes |-> ( <<"a.c">> :> << <<"h.h">> >> ) @@
                    ( <<"libavutil", "m.c">> :> << <<"..", "h.h">> >> ) @@
                    NoIncludes({ <<"libavutil", "aes.c">>, <<"h.h">> })],
      \* a header that includes itself through its parent directory
      [files |-> { <<"a.c">>, <<"libavutil", "m.c">>, <<"libavutil", "aes.c">>,
                   <<"libavutil", "h.h">> },
       includes |-> ( <<"libavutil", "m.c">> :> << <<"h.h">> >> ) @@
                    ( <<"libavutil", "h.h">> :> << <<"..", "libavutil", "h.h">> >> ) @@
                    NoIncludes({ <<"a.c">>, <<"libavutil", "aes.c">> })] }

\* Lists of disjoint groups over the source files, one or two groups.
WalkGroupLists ==
    { << SourceSet(S, {"x64"}, {"Chrome"}, {"linux"}) >> : S \in SUBSET SourceFiles \ {{}} }
    \cup
    { << SourceSet(ST[1], {"x64"}, {"Chrome"}, {"linux"}),
         SourceSet(ST[2], {"mipsel"}, {"Ensemble"}, {"linux", "win"}) >> :
        ST \in { p \in (SUBSET SourceFiles \ {{}}) \X (SUBSET SourceFiles \ {{}}) :
                    p[1] \cap p[2] = {} } }

\* The orders in which lines 765-766 can visit the sources: group after
\* group, each group's set in any order.
RECURSIVE SourceOrders(_)
SourceOrders(l) ==
    IF l = << >> THEN { << >> }
    ELSE { o \o rest : o \in Orders(Head(l).sources), rest \in SourceOrders(Tail(l)) }

WalkInit ==
    /\ sets = << >>
    /\ disjoint_sets \in WalkGroupLists
    /\ new_sets = FALSE
    /\ pc = "walk"
    /\ fs \in WalkLayouts
    /\ loop_index = NumConfigs + 1
    /\ skipped_dirs = << >>
    /\ walked_files = {}
    /\ sources_to_check = {}
    /\ checked = {}
    /\ failed = {}
    /\ all_checks_passed = TRUE
    /\ output = NoOutput
    /\ pending \in SourceOrders(disjoint_sets)
    /\ stack = << >>
    /\ opened = << >>

\* Lines 699-708 and 710: a call of GetIncludedSources on `path`, made
\* while the calls in `callers` are active.
EnterCall(path, callers) ==
    LET file_path == FilePath(path)
        current_dir == DirName(file_path)
    IN  IF file_path \in sources_to_check
        THEN /\ stack' = callers
             /\ UNCHANGED <<sources_to_check, opened, pc>>
        ELSE IF Len(callers) >= MaxDepth
        THEN /\ pc' = "fatal"
             /\ stack' = callers
             /\ UNCHANGED <<sources_to_check, opened>>
        ELSE /\ sources_to_check' = sources_to_check \cup {file_path}
             /\ opened' = Append(opened, file_path)
             /\ stack' = Append(callers, [current_dir |-> current_dir,
                                          lines |-> ReadIncludes(fs, file_path)])
             /\ pc' = pc

\* Lines 765-767: the call for the next source of the groups.
WalkSource ==
    /\ pc = "walk"
    /\ stack = << >>
    /\ pending # << >>
    /\ pending' = Tail(pending)
    /\ EnterCall(Parts(Head(pending)), << >>)
    /\ UNCHANGED <<sets, disjoint_sets, new_sets, fs, loop_index, skipped_dirs, walked_files, checked,
                   failed, all_checks_passed, output>>

\* Lines 710-727: one include line of the file of the innermost call.
WalkLine ==
    /\ pc = "walk"
    /\ stack # << >>
    /\ stack[Len(stack)].lines # << >>
    /\ LET top == stack[Len(stack)]
           callers == [stack EXCEPT ![Len(stack)].lines = Tail(top.lines)]
           resolved_include_path == ResolveInclude(fs, top.current_dir, Head(top.lines))
       IN  IF resolved_include_path = NotFound
           THEN /\ pc' = "fatal"
                /\ stack' = callers
                /\ UNCHANGED <<sources_to_check, opened>>
           ELSE IF resolved_include_path = Skipped
           THEN /\ stack' = callers
                /\ UNCHANGED <<sources_to_check, opened, pc>>
           ELSE EnterCall(resolved_include_path, callers)
    /\ UNCHANGED <<sets, disjoint_sets, new_sets, fs, loop_index, skipped_dirs, walked_files, checked,
                   failed, all_checks_passed, output, pending>>

\* The for loop of the innermost call is over: the call returns.
WalkReturn ==
    /\ pc = "walk"
    /\ stack # << >>
    /\ stack[Len(stack)].lines = << >>
    /\ stack' = SubSeq(stack, 1, Len(stack) - 1)
    /\ UNCHANGED <<sets, disjoint_sets, new_sets, pc, mainvars, pending, opened>>

\* Line 769: every source has been walked; the license loop starts.
WalkDone ==
    /\ pc = "walk"
    /\ stack = << >>
    /\ pending = << >>
    /\ pc' = "license"
    /\ UNCHANGED <<sets, disjoint_sets, new_sets, mainvars, walkvars>>

NextWalk ==
    \/ WalkSource \/ WalkLine \/ WalkReturn \/ WalkDone
    \/ CheckLicense \/ WriteFile \/ RejectLicenses

SpecWalk == WalkInit /\ [][NextWalk]_vars

(* --------------------- the write step on its own ----------------------- *)

\* Source names of the groups that are rendered; one was built with '\'
\* as the path separator.
RenderFiles == { {"a.c"}, {"a.c", "arm/g.S", "x86\\f.asm"}, {"libavutil/m.c", "arm/g.S"} }

\* Target sets of the groups that are rendered.
RenderTargets == { {"Chromium"}, {"Chrome", "ChromeOS"}, SetOf(SUPPORTED_TARGETS) }

\* Groups as the partition returns them: no axis set is empty.
RenderGroups ==
    { SourceSet(srcs, archs, tgts, plats) :
        srcs \in RenderFiles,
        archs \in SUBSET SetOf(SUPPORTED_ARCHITECTURES) \ {{}},
        tgts \in RenderTargets,
        plats \in SUBSET SetOf(SUPPORTED_PLATFORMS) \ {{}} }

RenderGroupLists ==
    { << g >> : g \in RenderGroups }
    \cup
    { << SourceSet({"a.c"}, {"ia32", "x64"}, {"Chromium"}, plats),
         SourceSet({"libavutil/m.c", "arm/g.S"}, {"arm", "arm-neon"}, {"Chrome"}, {"linux"}) >> :
        plats \in SUBSET SetOf(SUPPORTED_PLATFORMS) \ {{}} }

\* Line 817: the partition has returned the groups and every file of the
\* closure has passed the license check.
RenderInit ==
    /\ sets = << >>
    /\ disjoint_sets \in RenderGroupLists
    /\ new_sets = FALSE
    /\ pc = "license"
    /\ fs = [files |-> { Parts(name) : name \in AllSources(disjoint_sets) },
             includes |-> NoIncludes({ Parts(name) : name \in AllSources(disjoint_sets) })]
    /\ loop_index = NumConfigs + 1
    /\ skipped_dirs = << >>
    /\ walked_files = {}
    /\ sources_to_check = { FilePath(Parts(name)) : name \in AllSources(disjoint_sets) }
    /\ checked = sources_to_check
    /\ failed = {}
    /\ all_checks_passed = TRUE
    /\ output = NoOutput
    /\ WalkIdle

NextRender == WriteFile

SpecRender == RenderInit /\ [][NextRender]_vars

(* ------------------------ partition properties ------------------------- *)

Returned == pc = "returned"

AllFiles(l) == UNION { l[k].sources : k \in 1..Len(l) }

\* The groups of l that the configuration (a, b, p) selects.
Selected(l, a, b, p) ==
    { k \in 1..Len(l) : a \in l[k].architectures /\ b \in l[k].targets /\ p \in l[k].platforms }

\* The inputs that contain file f.
Containing(f) == { i \in 1..Len(sets) : f \in sets[i].sources }

SameGroup(f, g) == \E k \in 1..Len(disjoint_sets) : {f, g} \subseteq disjoint_sets[k].sources

GroupSet(l) == { l[k] : k \in 1..Len(l) }

\* C1: any two distinct returned Groups have no source file in common.
Disjointness ==
    Returned => \A i, j \in 1..Len(disjoint_sets) :
                    i # j => disjoint_sets[i].sources \cap disjoint_sets[j].sources = {}

DisjointnessWitness ==
    /\ Returned
    /\ Len(disjoint_sets) >= 3
    /\ \E i, j \in 1..Len(sets) : i # j /\ sets[i].sources \cap sets[j].sources # {}

\* C2: the union of the returned Groups' files equals the union of the
\* inputs' files.
Coverage == Returned => AllFiles(disjoint_sets) = AllFiles(sets)

CoverageWitness ==
    /\ Returned
    /\ disjoint_sets # sets
    /\ AllFiles(sets) = Files

\* C3: the Groups selected by an observed configuration's label hold
\* exactly the files of that configuration.
ExactReproduction ==
    Returned => \A i \in 1..Len(sets) :
        \A a \in sets[i].architectures, b \in sets[i].targets, p \in sets[i].platforms :
            UNION { disjoint_sets[k].sources : k \in Selected(disjoint_sets, a, b, p) }
                = sets[i].sources

\* C4: the returned Group that contains a file carries the label of every
\* input that contains the file.
AxisCorrectness ==
    Returned => \A i \in 1..Len(sets) : \A f \in sets[i].sources :
        /\ \E k \in 1..Len(disjoint_sets) : f \in disjoint_sets[k].sources
        /\ \A k \in 1..Len(disjoint_sets) :
              f \in disjoint_sets[k].sources =>
                  /\ sets[i].architectures \subseteq disjoint_sets[k].architectures
                  /\ sets[i].targets \subseteq disjoint_sets[k].targets
                  /\ sets[i].platforms \subseteq disjoint_sets[k].platforms

AxisCorrectnessWitness ==
    /\ Returned
    /\ \E k \in 1..Len(disjoint_sets) :
          /\ Cardinality(disjoint_sets[k].architectures) = 2
          /\ Cardinality(disjoint_sets[k].targets) = 2
          /\ Cardinality(disjoint_sets[k].platforms) = 2
          /\ Cardinality(Containing(CHOOSE f \in disjoint_sets[k].sources : TRUE)) = 3

\* C5: the refinement loop terminates in a collection without an
\* intersecting pair.
Termination == (pc = "loop") ~> (Returned /\ ~HasIntersectingPair(disjoint_sets))

TerminationWitness ==
    /\ Returned
    /\ Len(disjoint_sets) > Len(sets)
    /\ Len(sets) = 3

\* Two reorderings of a list that generate every permutation of it.
SwapFirst(l) == IF Len(l) < 2 THEN l ELSE <<l[2], l[1]>> \o SubSeq(l, 3, Len(l))

Rotate(l) == IF Len(l) < 2 THEN l ELSE Tail(l) \o <<Head(l)>>

SameGroups(l, m) == Len(l) = Len(m) /\ GroupSet(l) = GroupSet(m)

\* C6: the returned Groups are the same for every ordering of the input
\* list, that is whichever intersecting pair comes first at each step.
OrderIndependence ==
    Returned =>
        /\ SameGroups(disjoint_sets, CreatePairwiseDisjointSets(SwapFirst(sets)))
        /\ SameGroups(disjoint_sets, CreatePairwiseDisjointSets(Rotate(sets)))

OrderIndependenceWitness ==
    /\ Returned
    /\ Len(sets) = 3
    /\ Len(disjoint_sets) > Len(sets)
    /\ FirstPair(sets) # FirstPair(Rotate(sets))
    /\ CreatePairwiseDisjointSets(Rotate(sets)) # disjoint_sets

ScenarioA(c1, c2) ==
    sets = << LabeledFileSet(c1, {"a.c", "b.c"}), LabeledFileSet(c2, {"b.c", "c.c"}) >>

\* C7: two files share a returned Group exactly when the same inputs
\* contain them; {a.c, b.c} and {b.c, c.c} give {a.c}, {b.c}, {c.c}.
SignatureClasses ==
    Returned =>
        /\ \A f, g \in AllFiles(sets) : SameGroup(f, g) <=> Containing(f) = Containing(g)
        /\ \A c1, c2 \in ObservedConfigs :
              ScenarioA(c1, c2) =>
                  /\ Len(disjoint_sets) = 3
                  /\ GroupSet(disjoint_sets) =
                        { LabeledFileSet(c1, {"a.c"}),
                          SourceSet({"b.c"}, {c1[1], c2[1]}, {c1[2], c2[2]}, {c1[3], c2[3]}),
                          LabeledFileSet(c2, {"c.c"}) }

SignatureClassesWitness ==
    /\ Returned
    /\ ScenarioA(<<"ia32", "Chromium", "linux">>, <<"arm", "Chrome", "linux">>)

\* C8: no returned Group is empty (no files, or an empty axis set).
NoEmptyGroup == Returned => \A k \in 1..Len(disjoint_sets) : ~IsEmpty(disjoint_sets[k])

(* ------------------------- include walk properties --------------------- *)

\* The file a quoted include of file f resolves to: next to f first, then
\* under the source root; the empty set when it resolves nowhere.
IncludeTarget(tree, f, include_file_path) ==
    LET local == Lookup(tree, DirName(f), include_file_path)
        root == Lookup(tree, << >>, include_file_path)
    IN  IF local \in tree.files THEN {local}
        ELSE IF root \in tree.files THEN {root}
        ELSE {}

IncludeTargets(tree, f) ==
    UNION { IncludeTarget(tree, f, tree.includes[f][k]) : k \in 1..Len(tree.includes[f]) }

\* The files reachable from the files S along resolved includes.
RECURSIVE Reachable(_, _)
Reachable(tree, S) ==
    LET T == S \cup UNION { IncludeTargets(tree, f) : f \in S }
    IN  IF T = S THEN S ELSE Reachable(tree, T)

GroupFiles == { Parts(name) : name \in AllSources(disjoint_sets) }

\* The files that the recorded paths name.
FilesOf(paths) == { FileOf(fs, path) : path \in paths }

\* The license loop has the closure of a walk that ran to its end.
WalkFinished == pc = "license" /\ opened # << >>

\* C11: the files handed to the license check are exactly the files
\* reachable from the files of the groups along resolved quoted includes,
\* the group files included; the one visited set shared by all sources
\* neither loses a reachable file nor adds an unreachable one.
ClosureIsReachable ==
    WalkFinished => FilesOf(sources_to_check) = Reachable(fs, GroupFiles)

\* Two sources share a header, the second finds it already visited, and a
\* file of the tree stays outside the closure.
ClosureIsReachableWitness ==
    /\ WalkFinished
    /\ Len(disjoint_sets) = 2
    /\ \E f \in fs.files :
          /\ f \notin GroupFiles
          /\ Cardinality({ g \in GroupFiles : f \in IncludeTargets(fs, g) }) = 2
          /\ f \in FilesOf(sources_to_check)
    /\ fs.files \ FilesOf(sources_to_check) # {}

\* C12: the walk opens no file twice, whatever the include relation,
\* cycles through a relative path that names the same file included; a
\* file already visited is never scanned again.
ScannedOnce ==
    \A i, j \in 1..Len(opened) : i # j => FileOf(fs, opened[i]) # FileOf(fs, opened[j])

\* A step that handles one include line of the innermost call.
LineStep ==
    /\ pc = "walk"
    /\ stack # << >>
    /\ stack[Len(stack)].lines # << >>
    /\ stack' # stack

\* What the step LineStep must do with the include line it handles.
LineOutcome ==
    LET top == stack[Len(stack)]
        include_file_path == Head(top.lines)
        local == Join(top.current_dir, include_file_path)
        root == Join(source_dir, include_file_path)
        goes_on == /\ Len(stack') >= Len(stack)
                   /\ stack'[Len(stack)].lines = Tail(top.lines)
    IN  IF IsFile(fs, local)
        THEN /\ FileOf(fs, local) \in FilesOf(sources_to_check')
             /\ sources_to_check' \subseteq sources_to_check \cup {FilePath(local)}
        ELSE IF IsFile(fs, root)
        THEN /\ FileOf(fs, root) \in FilesOf(sources_to_check')
             /\ sources_to_check' \subseteq sources_to_check \cup {FilePath(root)}
        ELSE IF include_file_path \in IGNORED_INCLUDE_FILES
        THEN /\ sources_to_check' = sources_to_check
             /\ opened' = opened
             /\ pc' = "walk"
             /\ goes_on
        ELSE pc' = "fatal"

\* C13: an include is resolved next to the including file first (also
\* when it exists under the source root too), else under the source root,
\* and in both cases walked, on the ignore list or not; an include found
\* nowhere is skipped when it is on the ignore list and otherwise ends the
\* run, after which nothing is written.
ResolutionOrder ==
    /\ [][LineStep => LineOutcome]_vars
    /\ [](pc = "fatal" => output = NoOutput)
    /\ [][pc = "fatal" => pc' = "fatal"]_vars

\* A finished run in which a header was taken from the including file's
\* directory and not from the root, an absent ignore-listed include was
\* skipped, and an ignore-listed file that exists was walked and checked.
ResolutionOrderWitness ==
    /\ pc = "done"
    /\ << "/", "libavutil", "h.h" >> \in checked
    /\ << "/", "h.h" >> \notin sources_to_check /\ << "h.h" >> \in fs.files
    /\ << "/", "libavutil", "avconfig.h" >> \in checked
    /\ << "/", "config.h" >> \notin sources_to_check
    /\ << "/", "a.c" >> \in checked

\* C14: a failed license check does not end the license loop: the loop
\* returns only after every source of the closure has been classified,
\* and returns False exactly when at least one of them failed.
FailuresDoNotStop ==
    /\ pc \in {"done", "rejected"} =>
          /\ checked = sources_to_check
          /\ (pc = "rejected") <=> (failed # {})
    /\ pc = "license" => (all_checks_passed <=> failed = {})

FailuresDoNotStopWitness ==
    /\ pc = "rejected"
    /\ Cardinality(failed) = 2
    /\ Cardinality(checked) >= 4
    /\ checked = sources_to_check

(* ------------------------- rendering properties ------------------------ *)

\* The build configurations the tool supports.
Configurations ==
    SetOf(SUPPORTED_ARCHITECTURES) \X SetOf(SUPPORTED_TARGETS) \X SetOf(SUPPORTED_PLATFORMS)

\* The values of the build variables in a build of configuration cfg, as
\* the GYP build and the GN build define them.
GypVars(cfg) ==
    [target_arch |-> IF cfg[1] = "arm-neon" THEN "arm" ELSE cfg[1],
     arm_neon |-> IF cfg[1] = "arm-neon" THEN "1" ELSE "0",
     ffmpeg_branding |-> cfg[2],
     OS |-> cfg[3]]

GnVars(cfg) ==
    [current_cpu |-> IF cfg[1] = "arm-neon" THEN "arm"
                     ELSE IF cfg[1] = "ia32" THEN "x86" ELSE cfg[1],
     arm_use_neon |-> IF cfg[1] = "arm-neon" THEN "true" ELSE "false",
     ffmpeg_branding |-> cfg[2],
     is_linux |-> IF cfg[3] = "linux" THEN "true" ELSE "false",
     is_win |-> IF cfg[3] = "win" THEN "true" ELSE "false"]

CheckHolds(check, v) ==
    IF check = << "1" >> THEN TRUE
    ELSE IF Len(check) = 1 THEN v[check[1]] = "true"
    ELSE IF Len(check) = 2 THEN v[check[1]] = check[2]
    ELSE IF Len(check) = 3 THEN v[check[1]] = check[2] /\ v[check[3]] = "true"
    ELSE v[check[1]] = check[2] /\ v[check[3]] = check[4]

ClauseHolds(clause, v) == \E check \in clause : CheckHolds(check, v)

ConditionHolds(conditions, v) ==
    \A k \in 1..Len(conditions) : ClauseHolds(conditions[k], v)

Written == pc = "done" /\ output # NoOutput

IsGn == output.name = "ffmpeg_generated.gni"

BuildVars(cfg) == IF IsGn THEN GnVars(cfg) ELSE GypVars(cfg)

\* The clauses of stanza k that test one of the given variables; in the
\* GYP syntax the clause at the axis' position.
AxisClauses(k, position, variables) ==
    IF IsGn
    THEN { c \in SetOf(output.stanzas[k].conditions) : \E check \in c : check[1] \in variables }
    ELSE { output.stanzas[k].conditions[position] }

\* The clause of an axis is trivially true: the literal 1, or no clause.
Collapsed(k, position, variables) ==
    IF IsGn THEN AxisClauses(k, position, variables) = {}
    ELSE output.stanzas[k].conditions[position] = { << "1" >> }

\* The clause of an axis has one check for each member of the axis set
\* and holds for exactly the members.
Explicit(k, position, variables, members) ==
    /\ Cardinality(AxisClauses(k, position, variables)) = 1
    /\ \A c \in AxisClauses(k, position, variables) :
          /\ Cardinality(c) = Cardinality(members)
          /\ \A cfg \in Configurations :
                ClauseHolds(c, BuildVars(cfg)) <=> cfg[position] \in members

PlatformVariables == { "OS", "is_linux", "is_win" }

\* C15: in both syntaxes the platform clause is trivially true when the
\* platform set is the full domain or exactly {linux}, and is an explicit
\* disjunction with one check per member for every other platform set.
PlatformCollapse ==
    Written => \A k \in 1..Len(output.stanzas) :
        IF \/ output.sets[k].platforms = SetOf(SUPPORTED_PLATFORMS)
           \/ output.sets[k].platforms = {"linux"}
        THEN Collapsed(k, 3, PlatformVariables)
        ELSE Explicit(k, 3, PlatformVariables, output.sets[k].platforms)

PlatformCollapseWitness ==
    /\ Written
    /\ Len(output.stanzas) = 2
    /\ \E k \in 1..2 : output.sets[k].platforms = {"linux"}
    /\ \E k \in 1..2 : output.sets[k].platforms = {"win"}

\* C16: in both syntaxes an axis set that is a proper subset of its domain
\* is rendered as an explicit check per member, so that the condition of
\* a stanza holds in a build configuration only if each of the three axis
\* values of the configuration is a member of the group's axis set.
NoCollapseOfProperSubset ==
    Written => \A k \in 1..Len(output.stanzas) :
        /\ output.sets[k].architectures # SetOf(SUPPORTED_ARCHITECTURES) =>
              ~Collapsed(k, 1, { "target_arch", "current_cpu" })
        /\ output.sets[k].targets # SetOf(SUPPORTED_TARGETS) =>
              ~Collapsed(k, 2, { "ffmpeg_branding" })
        /\ output.sets[k].platforms # SetOf(SUPPORTED_PLATFORMS) =>
              ~Collapsed(k, 3, PlatformVariables)
        /\ \A cfg \in Configurations :
              ConditionHolds(output.stanzas[k].conditions, BuildVars(cfg)) =>
                  /\ cfg[1] \in output.sets[k].architectures
                  /\ cfg[2] \in output.sets[k].targets
                  /\ cfg[3] \in output.sets[k].platforms

(* ------------------------ extraction properties ------------------------ *)

\* The source files that the dictionary gives for denylisted object names.
DenylistedSources ==
    { ObjectToSource(SourceFiles, name) : name \in blacklist \cap ObjectKeys(SourceFiles) }

\* C17: a denylisted object name found in a build directory is not in
\* the list GetObjectFiles returns, and its source file is in no
\* configuration's set, in no group and in no written stanza, although
\* the dictionary has an entry for it.
DenylistedNeverSurvives ==
    /\ \A name \in walked_files \cap blacklist : name \notin GetObjectFiles(walked_files)
    /\ \A k \in 1..Len(sets) : sets[k].sources \cap DenylistedSources = {}
    /\ pc # "done" =>
          \A k \in 1..Len(disjoint_sets) : disjoint_sets[k].sources \cap DenylistedSources = {}
    /\ output # NoOutput =>
          \A k \in 1..Len(output.stanzas) :
              /\ output.sets[k].sources \cap DenylistedSources = {}
              /\ SetOf(output.stanzas[k].c_sources) \cap DenylistedSources = {}

DenylistedNeverSurvivesWitness ==
    /\ pc = "done"
    /\ {"libavutil/aes.o", "libavutil/m.o"} \subseteq walked_files
    /\ "libavutil/aes.o" \in ObjectKeys(SourceFiles)
    /\ \E k \in 1..Len(output.stanzas) :
          output.sets[k].sources = {"libavutil/m.c"}

\* The build directory read last held an object file that is not
\* denylisted and has no entry in the dictionary.
UnmappedObserved ==
    \E name \in walked_files :
        Ext(name) = ".o" /\ name \notin blacklist /\ name \notin ObjectKeys(SourceFiles)

\* C18: an object name that is not denylisted and has no dictionary
\* entry ends the run where it is looked up: no set is appended for the
\* configuration, no later configuration is processed, the partition and
\* the license check do not run and nothing is written.
AbortOnUnmapped ==
    /\ [](UnmappedObserved =>
             /\ pc = "fatal"
             /\ disjoint_sets = << >> /\ ~new_sets
             /\ sources_to_check = {} /\ checked = {}
             /\ output = NoOutput)
    /\ [][UnmappedObserved' =>
             sets' = sets /\ loop_index' = loop_index /\ skipped_dirs' = skipped_dirs]_vars
    /\ [][~UnmappedObserved]_vars

AbortOnUnmappedWitness ==
    /\ UnmappedObserved
    /\ pc = "fatal"
    /\ Len(sets) = 1
    /\ loop_index < NumConfigs
    /\ "libavutil/aes.o" \in walked_files

(* ---------------------- refinement step properties -------------------- *)

\* A step of the loop that splits a pair.
RefineStep == pc = "loop" /\ pc' = "loop" /\ disjoint_sets' # disjoint_sets

\* The list l after the entries at i and j have been replaced by da and
\* db, or removed where the replacement is empty, and x has been added.
SplitResult(l, i, j, da, db, x) ==
    LET tagged == [k \in 1..Len(l) |->
                      << k, IF k = i THEN da ELSE IF k = j THEN db ELSE l[k] >>]
        kept == SelectSeq(tagged, LAMBDA t : ~(t[1] \in {i, j} /\ IsEmpty(t[2])))
    IN  [k \in 1..Len(kept) |-> kept[k][2]] \o << x >>

\* The files of a without those of b, under the axis sets of a.
Remainder(a, b) ==
    SourceSet(a.sources \ b.sources, a.architectures, a.targets, a.platforms)

\* C19 as stated: a step on the pair (A, B) adds Intersect(A, B) and puts
\* Difference(A, B), with the axis sets of A and B intersected, in the
\* place of A, or removes A when that group is empty; the same for B.
StepUsesPartnerDifference ==
    [][RefineStep =>
          LET pair == FirstPair(disjoint_sets)
              A == disjoint_sets[pair[1]]
              B == disjoint_sets[pair[2]]
          IN  disjoint_sets' = SplitResult(disjoint_sets, pair[1], pair[2],
                                           Difference(A, B), Difference(B, A),
                                           Intersect(A, B))]_vars

\* C19 amended: a step on the pair (A, B) adds Intersect(A, B) and puts
\* in the place of A the group with the files of A that are not in B and
\* the axis sets of A unchanged, or removes A when no file is left; the
\* same for B.
StepKeepsOwnAxes ==
    [][RefineStep =>
          LET pair == FirstPair(disjoint_sets)
              A == disjoint_sets[pair[1]]
              B == disjoint_sets[pair[2]]
          IN  disjoint_sets' = SplitResult(disjoint_sets, pair[1], pair[2],
                                           Remainder(A, B), Remainder(B, A),
                                           Intersect(A, B))]_vars

\* After one step on two inputs: the first keeps its axis sets and loses
\* the common files, the second had no other file and is gone.
StepKeepsOwnAxesWitness ==
    /\ pc = "loop"
    /\ Len(sets) = 2
    /\ sets[1].architectures # sets[2].architectures
    /\ sets[2].sources # {}
    /\ sets[1].sources \ sets[2].sources # {}
    /\ disjoint_sets = << Remainder(sets[1], sets[2]), Intersect(sets[1], sets[2]) >>

\* The pairs of entries of l that have a file in common.
IntersectingPairs(l) ==
    { p \in Combinations(l) : l[p[1]].sources \cap l[p[2]].sources # {} }

\* The number of files of the entries of l, added up.
RECURSIVE TotalFiles(_)
TotalFiles(l) ==
    IF l = << >> THEN 0 ELSE Cardinality(Head(l).sources) + TotalFiles(Tail(l))

\* C20 as stated: every step of the loop that splits a pair leaves fewer
\* pairs of entries with a common file than there were before it.
PairsDecrease ==
    [][RefineStep =>
          Cardinality(IntersectingPairs(disjoint_sets')) <
              Cardinality(IntersectingPairs(disjoint_sets))]_vars

\* C20 amended: every step of the loop that splits a pair makes the sum
\* of the sizes of the entries' file sets smaller, by the number of files
\* the pair has in common.
TotalFilesDecrease ==
    [][RefineStep =>
          LET pair == FirstPair(disjoint_sets)
              common == disjoint_sets[pair[1]].sources \cap disjoint_sets[pair[2]].sources
          IN  /\ common # {}
              /\ TotalFiles(disjoint_sets') = TotalFiles(disjoint_sets) - Cardinality(common)]_vars

\* After the first step on three inputs there are as many intersecting
\* pairs as before it, and fewer files in total.
TotalFilesDecreaseWitness ==
    /\ pc = "loop"
    /\ Len(sets) = 3
    /\ HasIntersectingPair(sets)
    /\ disjoint_sets = SplitPair(sets, FirstPair(sets))
    /\ Cardinality(IntersectingPairs(disjoint_sets)) >= Cardinality(IntersectingPairs(sets))
    /\ TotalFiles(disjoint_sets) < TotalFiles(sets)

\* C21: a step on the pair at positions i < j changes the list only at
\* the places of the pair and by the added intersection: list.index finds
\* each member at its own place, and every other entry, also one with the
\* files of a member under other axis sets, stays as it is, in its order.
OnlyThePairIsTouched ==
    [][RefineStep =>
          LET l == disjoint_sets
              i == FirstPair(l)[1]
              j == FirstPair(l)[2]
              x == Intersect(l[i], l[j])
              l1 == Append(l, x)
              l2 == UpdateMember(l1, l[i], x)
              removed == Len(l1) - Len(l2)
          IN  /\ Index(l1, l[i]) = i
              /\ Index(l2, l[j]) = j - removed
              /\ \E ka, kb \in 0..1 :
                    /\ Len(disjoint_sets') = Len(l) - 2 + ka + kb + 1
                    /\ disjoint_sets'[Len(disjoint_sets')] = x
                    /\ \A k \in 1..Len(l) \ {i, j} :
                          disjoint_sets'[k - (IF k > i THEN 1 - ka ELSE 0)
                                           - (IF k > j THEN 1 - kb ELSE 0)] = l[k]]_vars

\* After the first step, on the first two inputs, the third input, which
\* has the files of the first under another label, is still in the list.
OnlyThePairIsTouchedWitness ==
    /\ pc = "loop"
    /\ Len(sets) = 3
    /\ HasIntersectingPair(sets)
    /\ FirstPair(sets) = << 1, 2 >>
    /\ disjoint_sets = SplitPair(sets, FirstPair(sets))
    /\ sets[3].sources = sets[1].sources
    /\ sets[3] # sets[1]
    /\ \E k \in 1..Len(disjoint_sets) : disjoint_sets[k] = sets[3]

\* The entries of l that hold at least one file.
WithFiles(l) == { k \in 1..Len(l) : l[k].sources # {} }

\* C22 as stated: from the call to the return the list never has more
\* entries than there are distinct files in the inputs.
GroupCountBounded ==
    pc \in {"loop", "returned"} => Len(disjoint_sets) <= Cardinality(AllFiles(sets))

\* C22 amended: the returned list has at most as many entries with a file
\* as there are distinct files in the inputs; before the return the list
\* can be longer, its entries with a file being at most as many as the
\* sizes of the inputs' file sets added up.
GroupsWithFilesBounded ==
    /\ pc \in {"loop", "returned"} =>
          Cardinality(WithFiles(disjoint_sets)) <= TotalFiles(sets)
    /\ Returned => Cardinality(WithFiles(disjoint_sets)) <= Cardinality(AllFiles(sets))

\* Returned with one group for each of the three files, from three inputs
\* of two files each.
GroupsWithFilesBoundedWitness ==
    /\ Returned
    /\ Len(sets) = 3
    /\ Cardinality(AllFiles(sets)) = 3
    /\ Cardinality(WithFiles(disjoint_sets)) = 3
    /\ \A k \in 1..3 : Cardinality(sets[k].sources) = 2

\* C23: groups are values that no operation changes: the refinement
\* leaves the caller's list and its groups as they were, and writing the
\* stanzas leaves every group it is given as it was.
GroupsImmutable ==
    /\ [][pc = "loop" => sets' = sets]_vars
    /\ [][pc' = "done" => disjoint_sets' = disjoint_sets]_vars

\* The inputs that contain every file of the group g.
ContainingAll(g) == { i \in 1..Len(sets) : g.sources \subseteq sets[i].sources }

\* C24: every value in an axis set of a returned group is the label of an
\* input that contains every file of the group, and each axis set is the
\* union of that axis' labels over the inputs that contain the group's
\* files.
NoSpuriousAxisValue ==
    Returned => \A k \in 1..Len(disjoint_sets) :
        LET g == disjoint_sets[k]
        IN  /\ g.architectures = UNION { sets[i].architectures : i \in ContainingAll(g) }
            /\ g.targets = UNION { sets[i].targets : i \in ContainingAll(g) }
            /\ g.platforms = UNION { sets[i].platforms : i \in ContainingAll(g) }

\* The clauses of a GN stanza that test one of the given variables.
GnClauses(stanza, variables) ==
    { c \in SetOf(stanza.conditions) : \E check \in c : check[1] \in variables }

\* The GYP clause at `position` and the GN clauses on `variables` agree:
\* the first is the literal 1 exactly when there is none of the second;
\* otherwise there is one GN clause, both have one check for each member
\* of the axis set, and they hold in the same configurations.
ClausesAgree(gyp, gn, position, variables, members) ==
    /\ (gyp.conditions[position] = { << "1" >> }) <=> (GnClauses(gn, variables) = {})
    /\ gyp.conditions[position] # { << "1" >> } =>
          /\ Cardinality(GnClauses(gn, variables)) = 1
          /\ Cardinality(gyp.conditions[position]) = Cardinality(members)
          /\ \A c \in GnClauses(gn, variables) :
                /\ Cardinality(c) = Cardinality(members)
                /\ \A cfg \in Configurations :
                      ClauseHolds(gyp.conditions[position], GypVars(cfg)) <=>
                          ClauseHolds(c, GnVars(cfg))

\* C25: for every group that is written, the GYP stanza and the GN stanza
\* of the group hold in the same configurations, collapse the same axes,
\* check the members of the other axes one by one, and list the same
\* files.
SyntaxesAgree ==
    Written => \A k \in 1..Len(output.stanzas) :
        LET g == output.sets[k]
            gyp == IF IsGn THEN GenerateGypStanza(g) ELSE output.stanzas[k]
            gn == IF IsGn THEN output.stanzas[k] ELSE GenerateGnStanza(g)
        IN  /\ \A cfg \in Configurations :
                  ConditionHolds(gyp.conditions, GypVars(cfg)) <=>
                      ConditionHolds(gn.conditions, GnVars(cfg))
            /\ ClausesAgree(gyp, gn, 1, { "current_cpu" }, g.architectures)
            /\ ClausesAgree(gyp, gn, 2, { "ffmpeg_branding" }, g.targets)
            /\ ClausesAgree(gyp, gn, 3, { "is_linux", "is_win" }, g.platforms)
            /\ gyp.c_sources = gn.c_sources
            /\ SetOf(gyp.asm_sources) = SetOf(gn.gas_sources) \cup SetOf(gn.yasm_sources)
            /\ Len(gyp.asm_sources) = Len(gn.gas_sources) + Len(gn.yasm_sources)

\* A written group with ia32 and arm-neon among its architectures, every
\* target, one platform, and C, GAS and YASM files.
SyntaxesAgreeWitness ==
    /\ Written
    /\ Len(output.stanzas) = 1
    /\ {"ia32", "arm-neon"} \subseteq output.sets[1].architectures
    /\ output.sets[1].architectures # SetOf(SUPPORTED_ARCHITECTURES)
    /\ output.sets[1].targets = SetOf(SUPPORTED_TARGETS)
    /\ output.sets[1].platforms = {"win"}
    /\ output.sets[1].sources = {"a.c", "arm/g.S", "x86\\f.asm"}
    /\ IsGn

(* ----------------------------- main() properties ---------------------- *)

\* C9: the output file is written only after the license loop has visited
\* the whole closure without a failure; once a file has failed there is no
\* output, whatever was checked before or after it.
GateAtomicity ==
    /\ output # NoOutput =>
          /\ pc = "done"
          /\ checked = sources_to_check
          /\ failed = {}
    /\ failed # {} => output = NoOutput /\ pc \in {"license", "rejected", "fatal"}

GateAtomicityWitness ==
    /\ pc = "rejected"
    /\ failed # {}
    /\ checked \ failed # {}
    /\ output = NoOutput

NoConfigObserved == loop_index > NumConfigs /\ Len(sets) = 0

\* C10: when no build directory exists the run ends in the fatal exit
\* before the license check starts and nothing is written; a written
\* output has at least one Group.
NoConfigNoOutput ==
    /\ [](NoConfigObserved =>
             /\ pc \in {"scan", "loop", "returned", "fatal"}
             /\ sources_to_check = {} /\ checked = {}
             /\ output = NoOutput)
    /\ [][(NoConfigObserved /\ pc = "returned") => pc' = "fatal"]_vars
    /\ [](output # NoOutput => Len(disjoint_sets) >= 1 /\ output.sets # << >>)

NoConfigNoOutputWitness ==
    /\ NoConfigObserved
    /\ Len(skipped_dirs) = NumConfigs
    /\ pc = "fatal"

====
